---- MODULE Spec2Model ----
(***************************************************************************)
(* Beach-volleyball load-management dashboard.                             *)
(*                                                                         *)
(*   process_data.py      clean_dataframe, calculate_training_recommendation*)
(*   process_wellness.py  process_wellness_data, calculate_color_code,     *)
(*                        create_wellness_display, style_wellness_display  *)
(*   app.py               check_password, the module-level dashboard script*)
(*                                                                         *)
(* Numbers are IEEE 754 binary64 floats, as pandas and numpy hold them:    *)
(* every sum, product, quotient and square root is rounded to the nearest  *)
(* float (ties to even), and not-a-number and infinity follow the IEEE     *)
(* rules the source relies on (every ordered comparison with not-a-number  *)
(* is false, x/0 is infinite, 0/0 is not-a-number).                        *)
(***************************************************************************)
EXTENDS Integers, Sequences, FiniteSets, TLC

VARIABLES
    \* calculate_training_recommendation called directly
    athlete_data,     \* the history frame passed in: a sequence of rows
    recent_data,      \* the most-recent row passed in
    rec,              \* what the call returned
    rpc,              \* "build" | "done"
    \* the load pipeline of app.py lines 92-129
    raw_df,           \* the concatenated sheets: a sequence of entries
    dur_dtype,        \* dtype of the two duration columns: "text" | "timedelta"
    combined_df,      \* the frame after groupby/agg and clean_dataframe
    results,          \* athlete -> recommendation details
    renormalized,     \* the frame after the normalizer is applied once more
    npc,              \* "load" | "cleaned" | "scored" | "again"
    \* calculate_color_code called directly
    cc_args,          \* [value, mean, std]
    cc_style,         \* the returned style string
    cpc,              \* "idle" | "done"
    \* the wellness pipeline
    wellness_df,      \* the survey sheet: a sequence of rows
    stats,            \* athlete -> metric -> [mean, std]
    display,          \* <<athlete, metric, date>> -> [value, style]
    wpc,              \* "load" | "shown" | "edited"
    \* one browser session of app.py
    session_state,    \* st.session_state: password_correct and password keys
    submitted,        \* the password submissions so far, oldest first
    page,             \* the elements the last script run has put on the page
    apc,              \* position of the script run
    raised,           \* where the run's exception was raised, "none" if none
    data_dir          \* what the data directory holds in this run

vars == <<athlete_data, recent_data, rec, rpc,
          raw_df, dur_dtype, combined_df, results, renormalized, npc,
          cc_args, cc_style, cpc,
          wellness_df, stats, display, wpc,
          session_state, submitted, page, apc, raised, data_dir>>

recVars  == <<athlete_data, recent_data, rec, rpc>>
normVars == <<raw_df, dur_dtype, combined_df, results, renormalized, npc>>
ccVars   == <<cc_args, cc_style, cpc>>
wellVars == <<wellness_df, stats, display, wpc>>
appVars  == <<session_state, submitted, page, apc, raised, data_dir>>

(***************************************************************************)
(* Natural numbers of any size: little-endian sequences of digits in base  *)
(* 2^15 without leading zero digits; <<>> is zero.                          *)
(***************************************************************************)
LimbBits == 15
Limb == 32768

\* digit i of x, 0 beyond its length
BDigitAt(x, i) == IF i >= 1 /\ i <= Len(x) THEN x[i] ELSE 0

Highest(S) == CHOOSE i \in S : \A j \in S : j <= i

\* x without leading zero digits
BTrim(x) ==
    LET nz == { i \in DOMAIN x : x[i] # 0 }
    IN  IF nz = {} THEN <<>> ELSE SubSeq(x, 1, Highest(nz))

\* -1, 0 or 1 as x is below, equal to or above y
BCmp(x, y) ==
    IF Len(x) > Len(y) THEN 1
    ELSE IF Len(x) < Len(y) THEN -1
    ELSE LET diff == { i \in DOMAIN x : x[i] # y[i] }
         IN  IF diff = {} THEN 0
             ELSE IF x[Highest(diff)] > y[Highest(diff)] THEN 1 ELSE -1

\* The number with the digits v[i] in 0..(2 * Limb - 2): position i receives a
\* carry when a position below it overflows and every position between them
\* is full.
BCarry(v) ==
    LET carry(i) == \E j \in 1..(i - 1) :
                        /\ v[j] >= Limb
                        /\ \A k \in (j + 1)..(i - 1) : v[k] = Limb - 1
    IN  BTrim([i \in 1..(Len(v) + 1) |->
                 (BDigitAt(v, i) + (IF carry(i) THEN 1 ELSE 0)) % Limb])

BAdd(x, y) ==
    IF x = <<>> THEN y
    ELSE IF y = <<>> THEN x
    ELSE BCarry([i \in 1..(IF Len(x) > Len(y) THEN Len(x) ELSE Len(y)) |->
                    BDigitAt(x, i) + BDigitAt(y, i)])

\* x - y for x >= y: position i lends when a position below it falls short
\* and every position between them is level.
BSub(x, y) ==
    LET d(i) == x[i] - BDigitAt(y, i)
        borrow(i) == \E j \in 1..(i - 1) :
                         /\ d(j) < 0
                         /\ \A k \in (j + 1)..(i - 1) : d(k) = 0
    IN  IF y = <<>> THEN x
        ELSE IF x = y THEN <<>>
        ELSE BTrim([i \in 1..Len(x) |->
                      (d(i) + Limb - (IF borrow(i) THEN 1 ELSE 0)) % Limb])

\* x * k for 0 <= k < Limb
BMulSmall(x, k) ==
    IF k = 0 \/ x = <<>> THEN <<>>
    ELSE
    BCarry([i \in 1..(Len(x) + 1) |->
               ((BDigitAt(x, i) * k) % Limb) + ((BDigitAt(x, i - 1) * k) \div Limb)])

\* x * y, given the sum acc of the products of y with the digits of x below
\* digit i
RECURSIVE BMulFrom(_, _, _, _)
BMulFrom(x, y, i, acc) ==
    IF i > Len(x) THEN acc
    ELSE LET p == BMulSmall(y, x[i])
         IN  IF p = <<>> THEN BMulFrom(x, y, i + 1, acc)
             ELSE BMulFrom(x, y, i + 1, BAdd(acc, [j \in 1..(i - 1) |-> 0] \o p))
BMul(x, y) == BMulFrom(x, y, 1, <<>>)

\* the number of bits of 0 <= n < Limb
IntBitLen(n) == CHOOSE k \in 0..LimbBits : n < 2^k /\ (k = 0 \/ n >= 2^(k - 1))
BitLen(x) == IF x = <<>> THEN 0 ELSE LimbBits * (Len(x) - 1) + IntBitLen(x[Len(x)])

\* x * 2^k
BShl(x, k) ==
    LET q == k \div LimbBits
        t == 2^(k % LimbBits)
    IN  IF x = <<>> THEN x
        ELSE
        BTrim([i \in 1..(Len(x) + q + 1) |->
                 ((BDigitAt(x, i - q) * t) % Limb)
                 + ((BDigitAt(x, i - q - 1) * t) \div Limb)])

\* x \div 2^k
BShr(x, k) ==
    LET q == k \div LimbBits
        r == k % LimbBits
    IN  IF x = <<>> THEN x
        ELSE
        BTrim([i \in 1..(Len(x) - q) |->
                 (BDigitAt(x, i + q) \div 2^r)
                 + ((BDigitAt(x, i + q + 1) % 2^r) * 2^(LimbBits - r))])

\* whether the k lowest bits of x are all zero
BLowZero(x, k) ==
    /\ \A i \in 1..(k \div LimbBits) : BDigitAt(x, i) = 0
    /\ BDigitAt(x, k \div LimbBits + 1) % 2^(k % LimbBits) = 0

\* The digit q with q * y <= cur < (q + 1) * y, for cur < Limb * y and y # 0
\* with its top digit at least Limb / 2: the quotient of the top digits is q,
\* q + 1 or q + 2.
BDigit(cur, y) ==
    LET n    == Len(y)
        qhat == (BDigitAt(cur, n + 1) * Limb + BDigitAt(cur, n)) \div y[n]
        top  == IF qhat > Limb - 1 THEN Limb - 1 ELSE qhat
    IN  CHOOSE q \in { top - 2, top - 1, top } :
            /\ q >= 0
            /\ BCmp(BMulSmall(y, q), cur) <= 0
            /\ (q = top \/ BCmp(BMulSmall(y, q + 1), cur) > 0)

\* Long division of x by y from digit i of x down, given the quotient digits
\* q and the remainder r of the digits above i.
RECURSIVE BDivFrom(_, _, _, _, _)
BDivFrom(x, y, i, q, r) ==
    IF i = 0 THEN [q |-> BTrim(q), r |-> r]
    ELSE LET step(cur, d) ==
                 IF d = 0 THEN BDivFrom(x, y, i - 1, <<0>> \o q, cur)
                 ELSE BDivFrom(x, y, i - 1, <<d>> \o q, BSub(cur, BMulSmall(y, d)))
             digit(cur) == step(cur, BDigit(cur, y))
         IN  digit(BTrim(<<x[i]>> \o r))

\* x \div y and x % y for y # 0: both are scaled until the top digit of y is
\* at least Limb / 2; the n - 1 top digits of the dividend are below the
\* divisor of n digits and start the remainder.
BDivMod(x, y) ==
    LET sh == LimbBits - IntBitLen(y[Len(y)])
        divide(xs, ys, n) ==
            IF Len(xs) < n THEN [q |-> <<>>, r |-> xs]
            ELSE BDivFrom(xs, ys, Len(xs) - n + 1, <<>>, SubSeq(xs, Len(xs) - n + 2, Len(xs)))
        unshift(p) == [q |-> p.q, r |-> BShr(p.r, sh)]
    IN  unshift(divide(BShl(x, sh), BShl(y, sh), Len(y)))

\* The largest root with root * root <= n, for n # 0, by Newton's iteration
\* from r, a number not below it.
RECURSIVE BRootFrom(_, _)
BRootFrom(n, r) ==
    LET step(next) == IF BCmp(next, r) >= 0 THEN r ELSE BRootFrom(n, next)
    IN  step(BShr(BAdd(r, BDivMod(n, r).q), 1))
BRoot(n) == IF n = <<>> THEN n ELSE BRootFrom(n, BShl(<<1>>, (BitLen(n) + 1) \div 2))

(***************************************************************************)
(* IEEE 754 binary64 (Python float, numpy float64), round to nearest even. *)
(* A finite value is s * m * 2^e with m a natural of 53 bits (fewer for a  *)
(* subnormal, which has e = EMin; none for zero, which has e = 0).  Zero   *)
(* has a sign as every other value: 0.0 has s = 1 and -0.0 has s = -1.     *)
(***************************************************************************)
Precision == 53
EMin == -1074
EMax == 971

FNaN == [kind |-> "nan", s |-> 1, m |-> <<>>, e |-> 0]
FInf(s) == [kind |-> "inf", s |-> s, m |-> <<>>, e |-> 0]
\* 0.0 for s = 1 and -0.0 for s = -1
FSignedZero(s) == [kind |-> "num", s |-> s, m |-> <<>>, e |-> 0]
FZero == FSignedZero(1)

IsNum(a) == a.kind = "num"
IsZero(a) == a.kind = "num" /\ a.m = <<>>

\* The float nearest to s * (n + f) * 2^e, where 0 < f < 1 if sticky and
\* f = 0 if not; n has more than Precision bits if sticky.  A zero result has
\* the sign s, and a result beyond the largest float is infinite.
FPack(s, n, e, sticky) ==
    LET \* the result with significand m2 and exponent e2
        result(m2, e2) ==
            IF m2 = <<>> THEN FSignedZero(s)
            ELSE IF e2 > EMax THEN FInf(s)
            ELSE [kind |-> "num", s |-> s, m |-> m2, e |-> e2]
        \* a rounded significand m1 of 54 bits is 2^53: one bit less, one
        \* exponent more
        carried(m1, et) ==
            IF BitLen(m1) > Precision THEN result(BShr(m1, 1), et + 1) ELSE result(m1, et)
        \* round up when the bit below the kept ones (bit hb) is set and
        \* either more is set below it or the kept significand m0 is odd
        up(m0, hb) ==
            /\ (BDigitAt(n, hb \div LimbBits + 1) \div 2^(hb % LimbBits)) % 2 = 1
            /\ \/ sticky
               \/ ~BLowZero(n, hb)
               \/ BDigitAt(m0, 1) % 2 = 1
        rounded(m0, sh, et) ==
            carried(IF up(m0, sh - 1) THEN BAdd(m0, <<1>>) ELSE m0, et)
        \* n has len bits: the exponent et of the result and the sh low bits
        \* of n that are rounded away
        placed(len) ==
            LET et == IF e + len - Precision > EMin THEN e + len - Precision ELSE EMin
            IN  IF et - e <= 0 THEN result(BShl(n, e - et), et)
                ELSE rounded(BShr(n, et - e), et - e, et)
    IN  IF n = <<>> THEN FSignedZero(s) ELSE placed(BitLen(n))

\* float(n) for an int n of magnitude below 2^31
FromInt(n) ==
    LET a == IF n < 0 THEN -n ELSE n
    IN  FPack(IF n < 0 THEN -1 ELSE 1,
              BTrim(<<a % Limb, (a \div Limb) % Limb, a \div (Limb * Limb)>>), 0, FALSE)

\* a against b when neither is nan: -1, 0 or 1
FCmp(a, b) ==
    LET sa == IF IsZero(a) THEN 0 ELSE a.s
        sb == IF IsZero(b) THEN 0 ELSE b.s
    IN  IF sa # sb THEN (IF sa < sb THEN -1 ELSE 1)
        ELSE IF sa = 0 THEN 0
        ELSE IF a.kind = "inf" \/ b.kind = "inf"
        THEN (IF a.kind = b.kind THEN 0 ELSE IF a.kind = "inf" THEN sa ELSE -sa)
        ELSE IF a.e > b.e THEN sa
        ELSE IF a.e < b.e THEN -sa
        ELSE sa * BCmp(a.m, b.m)

Ordered(a, b) == a.kind \in {"num", "inf"} /\ b.kind \in {"num", "inf"}
FLt(a, b) == Ordered(a, b) /\ FCmp(a, b) < 0
FGt(a, b) == Ordered(a, b) /\ FCmp(a, b) > 0
FLe(a, b) == Ordered(a, b) /\ FCmp(a, b) <= 0
FGe(a, b) == Ordered(a, b) /\ FCmp(a, b) >= 0
FEq(a, b) == Ordered(a, b) /\ FCmp(a, b) = 0

\* The exponent gap beyond which the smaller term only decides the rounding.
FarApart == 64

\* a + b for finite non-zero a and b with a.e >= b.e; a sum that is exactly
\* zero is 0.0
FAddOrdered(a, b) ==
    LET far == a.e - b.e > FarApart
        \* na is a.m aligned with b.m (a.m * 8 when far apart)
        total(na) ==
            IF far THEN (IF a.s = b.s THEN na ELSE BSub(na, <<1>>))
            ELSE IF a.s = b.s THEN BAdd(na, b.m)
            ELSE IF BCmp(na, b.m) >= 0 THEN BSub(na, b.m)
            ELSE BSub(b.m, na)
        sign(na) ==
            IF far \/ a.s = b.s THEN a.s
            ELSE IF na = b.m THEN 1
            ELSE IF BCmp(na, b.m) > 0 THEN a.s ELSE b.s
        packed(na) == FPack(sign(na), total(na), IF far THEN a.e - 3 ELSE b.e, far)
    IN  packed(BShl(a.m, IF far THEN 3 ELSE a.e - b.e))

FAdd(a, b) ==
    IF a.kind = "nan" \/ b.kind = "nan" THEN FNaN
    ELSE IF a.kind = "inf"
    THEN (IF b.kind = "inf" /\ b.s # a.s THEN FNaN ELSE a)
    ELSE IF b.kind = "inf" THEN b
    ELSE IF IsZero(a) /\ IsZero(b) THEN (IF a.s = b.s THEN a ELSE FZero)
    ELSE IF IsZero(a) THEN b
    ELSE IF IsZero(b) THEN a
    ELSE FAddOrdered(IF a.e >= b.e THEN a ELSE b, IF a.e >= b.e THEN b ELSE a)

FSub(a, b) == FAdd(a, IF b.kind = "nan" THEN b ELSE [b EXCEPT !.s = -b.s])

FMul(a, b) ==
    IF a.kind = "nan" \/ b.kind = "nan" THEN FNaN
    ELSE IF a.kind = "inf" \/ b.kind = "inf"
    THEN (IF IsZero(a) \/ IsZero(b) THEN FNaN ELSE FInf(a.s * b.s))
    ELSE IF IsZero(a) \/ IsZero(b) THEN FSignedZero(a.s * b.s)
    ELSE FPack(a.s * b.s, BMul(a.m, b.m), a.e + b.e, FALSE)

QuotientBits == 56

\* a / b as numpy divides: x/0 is infinite with the sign of x times the sign
\* of the zero, 0/0 is nan, no exception
FDiv(a, b) ==
    IF a.kind = "nan" \/ b.kind = "nan" THEN FNaN
    ELSE IF a.kind = "inf"
    THEN (IF b.kind = "inf" THEN FNaN ELSE FInf(a.s * b.s))
    ELSE IF b.kind = "inf" THEN FSignedZero(a.s * b.s)
    ELSE IF IsZero(b) THEN (IF IsZero(a) THEN FNaN ELSE FInf(a.s * b.s))
    ELSE IF IsZero(a) THEN FSignedZero(a.s * b.s)
    ELSE LET packed(qr, la, lb) ==
                 FPack(a.s * b.s, qr.q, (a.e - la) - (b.e - lb) - QuotientBits, qr.r # <<>>)
             \* both significands made 53 bits long, the dividend then
             \* QuotientBits longer
             divided(la, lb) ==
                 packed(BDivMod(BShl(a.m, la + QuotientBits), BShl(b.m, lb)), la, lb)
         IN  divided(Precision - BitLen(a.m), Precision - BitLen(b.m))

\* numpy.sqrt
FSqrt(a) ==
    IF a.kind = "nan" THEN FNaN
    ELSE IF IsZero(a) THEN a
    ELSE IF a.s < 0 THEN FNaN
    ELSE IF a.kind = "inf" THEN a
    ELSE LET packed(n, r, e) == FPack(1, r, e, BMul(r, r) # n)
             root(n, e) == packed(n, BRoot(n), e)
             \* the significand made 53 bits long and then k longer, k the
             \* one of 57 and 58 that leaves an even exponent e0 - k
             shifted(la, e0) ==
                 LET k == IF (e0 - 57) % 2 = 0 THEN 57 ELSE 58
                 IN  root(BShl(a.m, la + k), (e0 - k) \div 2)
             sized(la) == shifted(la, a.e - la)
         IN  sized(Precision - BitLen(a.m))

\* int(a) for a finite a of small magnitude: the fraction is dropped
FTruncInt(a) ==
    IF IsZero(a) THEN 0
    ELSE LET x == IF a.e >= 0 THEN BShl(a.m, a.e) ELSE BShr(a.m, -a.e)
         IN  a.s * (BDigitAt(x, 1) + Limb * BDigitAt(x, 2) + Limb * Limb * BDigitAt(x, 3))

\* The float a decimal literal with the value n/d denotes (0.4 is F(4, 10))
F(n, d) == FDiv(FromInt(n), FromInt(d))

\* Python's None where a float is expected
FNone == [kind |-> "none", s |-> 1, m |-> <<>>, e |-> 0]

\* pd.isna
IsNa(a) == a.kind \in {"nan", "none"}

\* numpy's sum of a short array: left to right from 0.0, as nansum does it
\* (a null counts as 0.0)
RECURSIVE NanSum(_)
NanSum(cells) ==
    IF cells = <<>> THEN FZero
    ELSE LET rest == NanSum(SubSeq(cells, 1, Len(cells) - 1))
             last == cells[Len(cells)]
         IN  IF IsNa(last) THEN rest ELSE FAdd(rest, last)

\* The non-null cells of a column.
Valid(cells) == SelectSeq(cells, LAMBDA c : ~IsNa(c))

\* Series.mean() / DataFrame.mean() (nanops.nanmean): the sum of the non-null
\* cells over their count; nan when there is none
NanMean(cells) == FDiv(NanSum(cells), FromInt(Len(Valid(cells))))

(***************************************************************************)
(* process_data.calculate_training_recommendation                          *)
(*                                                                         *)
(* A row of the frame carries acwr, acute (Acute Training Load), hr        *)
(* (HR Min (+80%)) and movement (Movement load), each a float; an empty     *)
(* cell is not-a-number.                                                    *)
(***************************************************************************)

AcwrLow == FromInt(1)      \* 1.0
AcwrHigh == F(13, 10)      \* 1.3
AdjLow == F(8, 10)         \* 0.8
AdjHigh == F(12, 10)       \* 1.2
WAcute == F(4, 10)         \* 0.4
WHr == F(3, 10)            \* 0.3
WMove == F(3, 10)          \* 0.3

\* BaseRec as it would be with >= 1.3 at line 94.
BaseRecClosedHigh(acwr) ==
    IF IsNa(acwr) THEN "same"
    ELSE IF FLt(acwr, AcwrLow) THEN "more"
    ELSE IF FGe(acwr, AcwrHigh) THEN "less"
    ELSE "same"

\* lines 89-97
BaseRec(acwr) ==
    IF IsNa(acwr) THEN "same"
    ELSE IF FLt(acwr, AcwrLow) THEN "more"
    ELSE IF FGt(acwr, AcwrHigh) THEN "less"
    ELSE "same"

\* AdjustmentScore as it would be with 0.2 for the movement weight at line 106.
AdjustmentScoreWeightSlip(a, h, m) ==
    FAdd(FAdd(FMul(WAcute, a), FMul(WHr, h)), FMul(F(2, 10), m))

\* lines 103-107: (0.4*a + 0.3*h) + 0.3*m, each product and sum rounded
AdjustmentScore(a, h, m) ==
    FAdd(FAdd(FMul(WAcute, a), FMul(WHr, h)), FMul(WMove, m))

\* FinalRec as it would be without the base_rec == 'same' test of line 110.
FinalRecOverrideAlways(base_rec, adjustment_score) ==
    IF FLt(adjustment_score, AdjLow) THEN "more"
    ELSE IF FGt(adjustment_score, AdjHigh) THEN "less"
    ELSE base_rec

\* lines 109-114
FinalRec(base_rec, adjustment_score) ==
    IF base_rec = "same"
    THEN IF FLt(adjustment_score, AdjLow) THEN "more"
         ELSE IF FGt(adjustment_score, AdjHigh) THEN "less"
         ELSE base_rec
    ELSE base_rec

\* athlete_data[col].mean() (line 87)
Mean(rows, col) == NanMean([i \in DOMAIN rows |-> rows[i][col]])

\* lines 84-123.  The returned pair (final_rec, details) is one record.
calculate_training_recommendation(adata, recent) ==
    LET details(base_rec, acute_load_ratio, hr_min_ratio, movement_ratio, adjustment_score) ==
            [final_rec        |-> FinalRec(base_rec, adjustment_score),
             base_rec         |-> base_rec,
             acwr             |-> recent.acwr,
             adjustment_score |-> adjustment_score,
             acute_ratio      |-> acute_load_ratio,
             hr_ratio         |-> hr_min_ratio,
             movement_ratio   |-> movement_ratio]
        scored(acute_load_ratio, hr_min_ratio, movement_ratio) ==
            details(BaseRec(recent.acwr), acute_load_ratio, hr_min_ratio, movement_ratio,
                    AdjustmentScore(acute_load_ratio, hr_min_ratio, movement_ratio))
    IN  scored(FDiv(recent.acute, Mean(adata, "acute")),
               FDiv(recent.hr, Mean(adata, "hr")),
               FDiv(recent.movement, Mean(adata, "movement")))

NoRec == [final_rec |-> "none", base_rec |-> "none", acwr |-> FNaN,
          adjustment_score |-> FNaN, acute_ratio |-> FNaN,
          hr_ratio |-> FNaN, movement_ratio |-> FNaN]

\* Inputs of the direct calls.
MaxHist == 2
Row(acwr, acute, hr, movement) ==
    [acwr |-> acwr, acute |-> FromInt(acute), hr |-> FromInt(hr),
     movement |-> FromInt(movement)]
HistRows == { Row(FNaN, 10, 10, 10), Row(FNaN, 0, 0, 10), Row(FNaN, 10, 8, 8) }
AcwrValues == {FNaN, F(9, 10), FromInt(1), F(13, 10), F(14, 10)}
RecentRows == { Row(w, a, h, m) : w \in AcwrValues, a \in {0, 2, 8, 12},
                                  h \in {0, 5, 8, 12, 13}, m \in {8, 12, 19, 27} }
NoRow == Row(FNaN, 0, 0, 0)

RecIdle ==
    /\ athlete_data = <<>>
    /\ recent_data = NoRow
    /\ rec = NoRec
    /\ rpc = "build"

AppendHistory ==
    /\ rpc = "build"
    /\ Len(athlete_data) < MaxHist
    /\ \E row \in HistRows : athlete_data' = Append(athlete_data, row)
    /\ UNCHANGED <<recent_data, rec, rpc>>
    /\ UNCHANGED <<normVars, ccVars, wellVars, appVars>>

CallRecommendation ==
    /\ rpc = "build"
    /\ \E recent \in RecentRows :
         /\ recent_data' = recent
         /\ rec' = calculate_training_recommendation(athlete_data, recent)
    /\ rpc' = "done"
    /\ UNCHANGED athlete_data
    /\ UNCHANGED <<normVars, ccVars, wellVars, appVars>>

(***************************************************************************)
(* The load-record normalizer: groupby/agg (app.py 94-106, the same as     *)
(* process_data.load_and_combine_data 29-43) followed by clean_dataframe.  *)
(*                                                                         *)
(* A raw entry carries athlete, date, the floats trimp and movement, the   *)
(* two duration cells anaer and high, and the daily summary columns acute  *)
(* and acwr (Chronic Training Load and Training Status are aggregated with *)
(* 'last' exactly as acute is and are read by nothing below; they are left *)
(* out).                                                                   *)
(*                                                                         *)
(* A duration cell is one of                                               *)
(*   text       an "hh:mm:ss" string; parts lists the seconds of each      *)
(*              hh:mm:ss text the string is made of (one, unless strings   *)
(*              were added together)                                       *)
(*   timedelta  n units of time, unit "s" or "ns"                          *)
(*   float      a number f, as the column holds after the conversion       *)
(* Zero is kept with unit "s" so that equal values are equal cells.        *)
(***************************************************************************)

Text(secs) == [kind |-> "text", parts |-> <<secs>>, n |-> 0, unit |-> "s", f |-> FZero]
Timedelta(n, unit) ==
    [kind |-> "timedelta", parts |-> <<>>, n |-> n,
     unit |-> IF n = 0 THEN "s" ELSE unit, f |-> FZero]
Number(f) == [kind |-> "float", parts |-> <<>>, n |-> 0, unit |-> "s", f |-> f]

\* GroupBy.sum on numbers (pandas' group_sum): Kahan's compensated sum of the
\* non-null values, in row order.  acc is [sum, comp].
RECURSIVE KahanFrom(_, _)
KahanFrom(cells, acc) ==
    IF cells = <<>> THEN acc.sum
    ELSE IF IsNa(cells[1]) THEN KahanFrom(Tail(cells), acc)
    ELSE LET next(y, t) ==
                 KahanFrom(Tail(cells), [sum |-> t, comp |-> FSub(FSub(t, acc.sum), y)])
             add(y) == next(y, FAdd(acc.sum, y))
         IN  add(FSub(cells[1], acc.comp))

GroupSum(cells) == KahanFrom(cells, [sum |-> FZero, comp |-> FZero])

RECURSIVE SumInts(_)
SumInts(ns) == IF ns = <<>> THEN 0 ELSE ns[1] + SumInts(Tail(ns))

RECURSIVE Concat(_)
Concat(texts) == IF texts = <<>> THEN <<>> ELSE texts[1] \o Concat(Tail(texts))

\* GroupBy.sum inside one duration column: strings concatenate, timedeltas
\* add as integers, floats add as numbers.  The timedeltas of one column
\* have one unit.
SumCells(cells) ==
    IF cells[1].kind = "text"
    THEN [kind |-> "text", parts |-> Concat([i \in DOMAIN cells |-> cells[i].parts]),
          n |-> 0, unit |-> "s", f |-> FZero]
    ELSE IF cells[1].kind = "timedelta"
    THEN Timedelta(SumInts([i \in DOMAIN cells |-> cells[i].n]), cells[1].unit)
    ELSE Number(GroupSum([i \in DOMAIN cells |-> cells[i].f]))

\* pd.to_timedelta raises ValueError on a string that is not one hh:mm:ss text.
ToTimedeltaRaises(cell) == cell.kind = "text" /\ Len(cell.parts) # 1

\* ToTimedelta as it would be if a number were read back as minutes.
NumbersAsMinutes(cell) ==
    IF cell.kind = "text" THEN Timedelta(cell.parts[1], "s")
    ELSE IF cell.kind = "timedelta" THEN cell
    ELSE Timedelta(FTruncInt(FMul(cell.f, FromInt(60))), "s")

\* pd.to_timedelta (line 71): a string is parsed, a timedelta is kept, and a
\* number is read as that many nanoseconds, its fraction dropped.
ToTimedelta(cell) ==
    IF cell.kind = "text" THEN Timedelta(cell.parts[1], "s")
    ELSE IF cell.kind = "timedelta" THEN cell
    ELSE Timedelta(FTruncInt(cell.f), "ns")

\* .dt.total_seconds() (line 71): the nanosecond count over 10^9 (pandas 2),
\* which for whole seconds is their number
TotalSeconds(td) ==
    IF td.unit = "s" THEN FromInt(td.n) ELSE FDiv(FromInt(td.n), FromInt(1000000000))

\* pd.to_timedelta(...).dt.total_seconds() / 60 (line 71)
TotalMinutes(cell) == FDiv(TotalSeconds(ToTimedelta(cell)), FromInt(60))

OutlierMin == FromInt(50)

GroupKeys(df) == { <<df[i].athlete, df[i].date>> : i \in DOMAIN df }
GroupOf(df, key) ==
    SelectSeq(df, LAMBDA e : e.athlete = key[1] /\ e.date = key[2])

Column(g, col) == [i \in DOMAIN g |-> g[i][col]]

\* GroupBy.last: the last non-null value of the group, null if there is none.
RECURSIVE LastValid(_)
LastValid(cells) ==
    IF cells = <<>> THEN FNaN
    ELSE IF IsNa(cells[Len(cells)]) THEN LastValid(SubSeq(cells, 1, Len(cells) - 1))
    ELSE cells[Len(cells)]

\* groupby(['Athlete name', 'Start date']).agg(grouped_cols).reset_index()
Aggregate(df) ==
    { LET g == GroupOf(df, key)
      IN  [athlete  |-> key[1], date |-> key[2],
           trimp    |-> GroupSum(Column(g, "trimp")),
           movement |-> GroupSum(Column(g, "movement")),
           anaer    |-> SumCells(Column(g, "anaer")),
           high     |-> SumCells(Column(g, "high")),
           acute    |-> LastValid(Column(g, "acute")),
           acwr     |-> LastValid(Column(g, "acwr"))]
      : key \in GroupKeys(df) }

\* KeepsRow as it would be with > 50 at lines 78-79.
KeepsRowStrict(r) == FGt(r.trimp, OutlierMin) /\ FGt(r.movement, OutlierMin)

\* lines 77-80
KeepsRow(r) == FGe(r.trimp, OutlierMin) /\ FGe(r.movement, OutlierMin)

\* lines 64-74 on one row: the two columns become floats, and hr (HR Min
\* (+80%)) is their sum
Converted(r) ==
    LET row(a, h) ==
            [athlete |-> r.athlete, date |-> r.date, trimp |-> r.trimp,
             movement |-> r.movement, anaer |-> a, high |-> h,
             acute |-> r.acute, acwr |-> r.acwr, hr |-> FAdd(a, h)]
    IN  row(TotalMinutes(r.anaer), TotalMinutes(r.high))

\* clean_dataframe (lines 47-82).  A frame is [error, rows]; a raise inside
\* leaves no frame.
clean_dataframe(rows) ==
    IF \E r \in rows : ToTimedeltaRaises(r.anaer) \/ ToTimedeltaRaises(r.high)
    THEN [error |-> "ValueError", rows |-> {}]
    ELSE [error |-> "none", rows |-> { Converted(r) : r \in { x \in rows : KeepsRow(x) } }]

Normalize(df) == clean_dataframe(Aggregate(df))

\* A cleaned frame read as input again: its rows in index order (groupby
\* sorts by key; the order of rows with different keys is read by nothing
\* below), the converted columns holding numbers.
RECURSIVE RowSeq(_)
RowSeq(rows) ==
    IF rows = {} THEN <<>>
    ELSE LET r == CHOOSE x \in rows : TRUE
         IN  <<[athlete |-> r.athlete, date |-> r.date, trimp |-> r.trimp,
                movement |-> r.movement, anaer |-> Number(r.anaer),
                high |-> Number(r.high), acute |-> r.acute, acwr |-> r.acwr]>>
             \o RowSeq(rows \ {r})

RECURSIVE ByDate(_)
ByDate(rows) ==
    IF rows = {} THEN <<>>
    ELSE LET r == CHOOSE x \in rows : \A y \in rows : x.date <= y.date
         IN  <<r>> \o ByDate(rows \ {r})

\* app.py 113-129: one athlete's history and most-recent row
ScoringRow(r) == [acwr |-> r.acwr, acute |-> r.acute, hr |-> r.hr, movement |-> r.movement]

AthleteRows(frame, a) == { r \in frame.rows : r.athlete = a }

RecentOf(frame, a) ==
    CHOOSE r \in AthleteRows(frame, a) : \A y \in AthleteRows(frame, a) : y.date <= r.date

ScoreAll(frame) ==
    [a \in { r.athlete : r \in frame.rows } |->
        LET hist == ByDate(AthleteRows(frame, a))
        IN  calculate_training_recommendation(
                [i \in DOMAIN hist |-> ScoringRow(hist[i])],
                ScoringRow(RecentOf(frame, a)))]

\* Inputs of the pipeline.
MaxRaw == 2
Athletes == {"Ana", "Bea"}
Rank(a) == IF a = "Ana" THEN 1 ELSE 2
Dates == {1, 2}
Sessions == { [trimp |-> 50, movement |-> 50, anaer |-> 70, high |-> 30],
              [trimp |-> 50, movement |-> 70, anaer |-> 0,  high |-> 0],
              [trimp |-> 25, movement |-> 50, anaer |-> 50, high |-> 0],
              [trimp |-> 50, movement |-> 25, anaer |-> 0,  high |-> 30] }
Summaries == { [acute |-> FromInt(2), acwr |-> FNaN],
               [acute |-> FromInt(2), acwr |-> F(9, 10)],
               [acute |-> FromInt(0), acwr |-> F(13, 10)],
               [acute |-> FromInt(3), acwr |-> F(13, 10)],
               [acute |-> FNaN, acwr |-> FromInt(1)] }

DurationCell(dtype, secs) == IF dtype = "text" THEN Text(secs) ELSE Timedelta(secs, "s")

Entry(a, d, s, y, dtype) ==
    [athlete |-> a, date |-> d, trimp |-> FromInt(s.trimp), movement |-> FromInt(s.movement),
     anaer |-> DurationCell(dtype, s.anaer), high |-> DurationCell(dtype, s.high),
     acute |-> y.acute, acwr |-> y.acwr]

\* Sheets are listed athlete by athlete and day by day; entries of one
\* athlete-day come in any order.
KeyOrdered(e1, e2) ==
    \/ Rank(e1.athlete) < Rank(e2.athlete)
    \/ e1.athlete = e2.athlete /\ e1.date <= e2.date

NoFrame == [error |-> "absent", rows |-> {}]

NormIdle(dtypes) ==
    /\ raw_df = <<>>
    /\ dur_dtype \in dtypes
    /\ combined_df = NoFrame
    /\ results = <<>>
    /\ renormalized = NoFrame
    /\ npc = "load"

LoadEntry ==
    /\ npc = "load"
    /\ Len(raw_df) < MaxRaw
    /\ \E a \in Athletes, d \in Dates, s \in Sessions, y \in Summaries :
         LET e == Entry(a, d, s, y, dur_dtype)
         IN  /\ raw_df # <<>> => KeyOrdered(raw_df[Len(raw_df)], e)
             /\ raw_df' = Append(raw_df, e)
    /\ UNCHANGED <<dur_dtype, combined_df, results, renormalized, npc>>
    /\ UNCHANGED <<recVars, ccVars, wellVars, appVars>>

\* app.py 94-109
NormalizeStep ==
    /\ npc = "load"
    /\ raw_df # <<>>
    /\ combined_df' = Normalize(raw_df)
    /\ npc' = IF combined_df'.error = "none" THEN "cleaned" ELSE "failed"
    /\ UNCHANGED <<raw_df, dur_dtype, results, renormalized>>
    /\ UNCHANGED <<recVars, ccVars, wellVars, appVars>>

\* app.py 111-129
ScoreStep ==
    /\ npc = "cleaned"
    /\ results' = ScoreAll(combined_df)
    /\ npc' = "scored"
    /\ UNCHANGED <<raw_df, dur_dtype, combined_df, renormalized>>
    /\ UNCHANGED <<recVars, ccVars, wellVars, appVars>>

\* The normalizer applied to its own output.
NormalizeAgain ==
    /\ npc = "scored"
    /\ renormalized' = Normalize(RowSeq(combined_df.rows))
    /\ npc' = "again"
    /\ UNCHANGED <<raw_df, dur_dtype, combined_df, results>>
    /\ UNCHANGED <<recVars, ccVars, wellVars, appVars>>

(***************************************************************************)
(* process_wellness.calculate_color_code                                   *)
(*                                                                         *)
(* value, mean and std are floats; mean and std can also be None.          *)
(***************************************************************************)

White == "background-color: #ffffff"
Red   == "background-color: #b00000"
Green == "background-color: #009a00"
Gray  == "background-color: #909090"

\* line 59: (value - mean) / std, the difference rounded and then the quotient
z_score(value, mean, std) == FDiv(FSub(value, mean), std)

\* calculate_color_code as it would be with <= -1 and >= 1 at lines 61-63.
ColorCodeClosed(value, mean, std) ==
    LET colour(z) ==
            IF FLe(z, FromInt(-1)) THEN Red
            ELSE IF FGe(z, FromInt(1)) THEN Green
            ELSE Gray
    IN  IF IsNa(value) \/ mean = FNone \/ std = FNone \/ FEq(std, FZero)
        THEN White
        ELSE colour(z_score(value, mean, std))

\* lines 54-66
calculate_color_code(value, mean, std) ==
    LET colour(z) ==
            IF FLt(z, FromInt(-1)) THEN Red
            ELSE IF FGt(z, FromInt(1)) THEN Green
            ELSE Gray
    IN  IF IsNa(value) \/ mean = FNone \/ std = FNone \/ FEq(std, FZero)
        THEN White
        ELSE colour(z_score(value, mean, std))

\* Inputs of the direct calls.
CcValues == {FNaN} \cup { FromInt(x) : x \in 0..7 }
CcMeans == {FNone, FNaN, FromInt(3), FromInt(4), F(7, 2), F(7, 10), F(13, 10)}
CcStds == {FNone, FNaN, FZero, FromInt(1), FromInt(2), FSqrt(FromInt(2)), F(3, 10)}
NoArgs == [value |-> FNaN, mean |-> FNone, std |-> FNone]

ColorIdle ==
    /\ cc_args = NoArgs
    /\ cc_style = ""
    /\ cpc = "idle"

CallColorCode ==
    /\ \E value \in CcValues, mean \in CcMeans, std \in CcStds :
         /\ cc_args' = [value |-> value, mean |-> mean, std |-> std]
         /\ cc_style' = calculate_color_code(value, mean, std)
    /\ cpc' = "done"
    /\ UNCHANGED <<recVars, normVars, wellVars, appVars>>

(***************************************************************************)
(* The wellness pipeline: process_wellness_data, create_wellness_display,  *)
(* style_wellness_display.  A sheet row carries Name, Date (a day number)  *)
(* and vals, the answer to each metric (an empty cell is not-a-number).    *)
(***************************************************************************)

DisplayDays == 6
BaselineDays == 14
TeamAverage == "Team Average"

RECURSIVE MaxDate(_)
MaxDate(df) ==
    IF Len(df) = 1 THEN df[1].Date
    ELSE LET m == MaxDate(Tail(df)) IN IF df[1].Date > m THEN df[1].Date ELSE m

\* Series.std() (nanops.nanstd, ddof = 1): with avg the sum of the non-null
\* cells over their count, the square root of the sum of (avg - x)^2 over
\* count - 1; nan when fewer than two cells are non-null
SeriesStd(cells) ==
    LET square(d) == FMul(d, d)
        spread(x, avg) ==
            FSqrt(FDiv(NanSum([i \in DOMAIN x |-> square(FSub(avg, x[i]))]),
                       FromInt(Len(x) - 1)))
        deviation(x) == IF Len(x) <= 1 THEN FNaN ELSE spread(x, FDiv(NanSum(x), FromInt(Len(x))))
    IN  deviation(Valid(cells))

display_start(df) == MaxDate(df) - DisplayDays
calc_start(df) == display_start(df) - BaselineDays

display_data(df) == SelectSeq(df, LAMBDA r : r.Date >= display_start(df))

\* calc_data as it would be without the Date < display_start test of line 35.
CalcDataNoUpperEnd(df) == SelectSeq(df, LAMBDA r : r.Date >= calc_start(df))

\* line 35
calc_data(df) ==
    SelectSeq(df, LAMBDA r : r.Date >= calc_start(df) /\ r.Date < display_start(df))

Names(df) == { df[i].Name : i \in DOMAIN df }

\* lines 37-50
WellnessStats(df, metrics) ==
    [athlete \in Names(df) |->
        LET athlete_calc_data == SelectSeq(calc_data(df), LAMBDA r : r.Name = athlete)
        IN  [metric \in metrics |->
                LET metric_data == [i \in DOMAIN athlete_calc_data |->
                                        athlete_calc_data[i].vals[metric]]
                IN  [mean |-> IF Len(metric_data) # 0 THEN NanMean(metric_data) ELSE FNone,
                     std  |-> IF Len(metric_data) > 1 THEN SeriesStd(metric_data) ELSE FNone]]]

\* create_wellness_display (lines 68-102): the cell of an athlete, metric and
\* date is the first row of that athlete on that date, null when there is
\* none; a Team Average cell is the mean over the day's rows.
Cells(ddata, metrics) ==
    (Names(ddata) \cup {TeamAverage}) \X metrics \X { ddata[i].Date : i \in DOMAIN ddata }

CellValue(ddata, cell) ==
    LET day_data == SelectSeq(ddata, LAMBDA r : r.Date = cell[3])
        athlete_data_ == SelectSeq(day_data, LAMBDA r : r.Name = cell[1])
    IN  IF cell[1] = TeamAverage
        THEN NanMean([i \in DOMAIN day_data |-> day_data[i].vals[cell[2]]])
        ELSE IF athlete_data_ = <<>> THEN FNaN
        ELSE athlete_data_[1].vals[cell[2]]

\* style_wellness_display.style_cell (lines 106-116)
style_cell(value, athlete, metric, st) ==
    IF athlete = TeamAverage THEN ""
    ELSE IF IsNa(value) THEN White
    ELSE calculate_color_code(value, st[athlete][metric].mean, st[athlete][metric].std)

WellnessDisplay(df, metrics) ==
    LET ddata == display_data(df)
        st == WellnessStats(df, metrics)
    IN  [cell \in Cells(ddata, metrics) |->
            LET value == CellValue(ddata, cell)
            IN  [value |-> value, style |-> style_cell(value, cell[1], cell[2], st)]]

\* Inputs of the wellness pipeline.  The model carries two of the seven metrics;
\* the seven go through the same loop bodies.
MaxRows == 3
wellness_metrics == {"Mood", "Energy"}
WellnessNames == {"Ana", "Bea"}
WellnessDates == {0, 1, 15, 21}
Answers == { [Mood |-> FromInt(3), Energy |-> FromInt(3)],
             [Mood |-> FromInt(5), Energy |-> FromInt(3)],
             [Mood |-> FNaN,       Energy |-> FromInt(3)] }

WellIdle ==
    /\ wellness_df = <<>>
    /\ stats = <<>>
    /\ display = <<>>
    /\ wpc = "load"

\* Form responses arrive in date order.
AddResponse ==
    /\ wpc = "load"
    /\ Len(wellness_df) < MaxRows
    /\ \E a \in WellnessNames, d \in WellnessDates, v \in Answers :
         /\ wellness_df # <<>> => wellness_df[Len(wellness_df)].Date <= d
         /\ wellness_df' = Append(wellness_df, [Name |-> a, Date |-> d, vals |-> v])
    /\ UNCHANGED <<stats, display, wpc>>
    /\ UNCHANGED <<recVars, normVars, ccVars, appVars>>

ShowWellness ==
    /\ wpc = "load"
    /\ wellness_df # <<>>
    /\ stats' = WellnessStats(wellness_df, wellness_metrics)
    /\ display' = WellnessDisplay(wellness_df, wellness_metrics)
    /\ wpc' = "shown"
    /\ UNCHANGED wellness_df
    /\ UNCHANGED <<recVars, normVars, ccVars, appVars>>

\* The same sheet with the answers of one display-window row changed, shown
\* again.
EditDisplayAnswer ==
    /\ wpc \in {"shown", "edited"}
    /\ \E i \in DOMAIN wellness_df, v \in Answers :
         /\ wellness_df[i].Date >= display_start(wellness_df)
         /\ v # wellness_df[i].vals
         /\ wellness_df' = [wellness_df EXCEPT ![i].vals = v]
    /\ stats' = WellnessStats(wellness_df', wellness_metrics)
    /\ display' = WellnessDisplay(wellness_df', wellness_metrics)
    /\ wpc' = "edited"
    /\ UNCHANGED <<recVars, normVars, ccVars, appVars>>

(***************************************************************************)
(* app.py: one browser session.  Every interaction reruns the script from  *)
(* the top; a run puts elements on the page one call at a time, and an     *)
(* element that was put stays for the rest of the run.                     *)
(***************************************************************************)

Secret == "secret"                      \* st.secrets["password"]
Passwords == {"", Secret, "guess", "volley"}   \* what the text input can hold
MaxSubmits == 3

NewSession == [password_correct |-> "absent", password |-> "absent"]

\* check_password.password_entered (lines 10-16), the on_change callback
password_entered(ss) ==
    IF ss.password = Secret
    THEN [password_correct |-> "True", password |-> "absent"]
    ELSE [password_correct |-> "False", password |-> ss.password]

\* check_password as it would be without the elif branch of lines 22-25.
CheckPasswordNoElif(ss) ==
    IF ss.password_correct = "absent"
    THEN [ok |-> FALSE, put |-> {"password_input"}]
    ELSE [ok |-> TRUE, put |-> {}]

\* check_password (lines 18-27): what it returns and what it puts on the page
check_password(ss) ==
    IF ss.password_correct = "absent"
    THEN [ok |-> FALSE, put |-> {"password_input"}]
    ELSE IF ss.password_correct # "True"
    THEN [ok |-> FALSE, put |-> {"password_input", "password_error"}]
    ELSE [ok |-> TRUE, put |-> {}]

\* OnException as it would be with an empty except clause.
OnExceptionSilent(p) == p

\* the except clause (lines 211-213)
OnException(p) == p \cup {"error", "help"}

\* What the data directory can hold.  A sheet is a frame of raw entries.
GoodEntry == Entry("Ana", 1, [trimp |-> 50, movement |-> 50, anaer |-> 70, high |-> 30],
                   [acute |-> FromInt(2), acwr |-> F(13, 10)], "text")
LowEntry == Entry("Ana", 1, [trimp |-> 25, movement |-> 50, anaer |-> 50, high |-> 0],
                  [acute |-> FromInt(2), acwr |-> FNaN], "timedelta")
DataDirs == {"missing", "empty", "column_missing", "one_entry", "two_text_entries",
             "only_outliers"}
SheetOf(dir) ==
    IF dir = "one_entry" THEN <<GoodEntry>>
    ELSE IF dir = "two_text_entries" THEN <<GoodEntry, GoodEntry>>
    ELSE <<LowEntry>>

\* lines 94-134: where the computation raises for this directory, "none" if
\* it reaches the first rendering call.  A missing column raises KeyError in
\* groupby().agg(); clean_dataframe raises on a duration it cannot parse; an
\* empty frame leaves results empty, and sort_athletes then raises KeyError
\* on the missing 'Athlete' column.
ComputeRaises(dir) ==
    IF dir = "column_missing" THEN "aggregate"
    ELSE LET raises(frame) ==
                 IF frame.error # "none" THEN "clean"
                 ELSE IF DOMAIN ScoreAll(frame) = {} THEN "score"
                 ELSE "none"
         IN  raises(Normalize(SheetOf(dir)))

AppStart ==
    /\ session_state = NewSession
    /\ submitted = <<>>
    /\ page = {}
    /\ apc = "gate"
    /\ raised = "none"
    /\ data_dir = "none"

AppIdle ==
    /\ session_state = NewSession
    /\ submitted = <<>>
    /\ page = {}
    /\ apc = "idle"
    /\ raised = "none"
    /\ data_dir = "none"

NotApp == UNCHANGED <<recVars, normVars, ccVars, wellVars>>

\* The user changes the text input and presses Enter: the callback runs and
\* the script reruns.  on_change fires only when the value has changed.
SubmitPassword ==
    /\ apc = "idle"
    /\ "password_input" \in page
    /\ Len(submitted) < MaxSubmits
    /\ \E pw \in Passwords :
         /\ pw # session_state.password
         /\ session_state' = password_entered([session_state EXCEPT !.password = pw])
         /\ submitted' = Append(submitted, pw)
    /\ page' = {}
    /\ apc' = "gate"
    /\ raised' = "none"
    /\ data_dir' = "none"
    /\ NotApp

\* Any other interaction (the athlete selectbox, a manual rerun).
Rerun ==
    /\ apc = "idle"
    /\ page' = {}
    /\ apc' = "gate"
    /\ raised' = "none"
    /\ data_dir' = "none"
    /\ UNCHANGED <<session_state, submitted>>
    /\ NotApp

\* lines 71-74.  A rendered text input holds "" until something is typed.
Gate ==
    /\ apc = "gate"
    /\ LET c == check_password(session_state)
       IN  /\ page' = IF c.ok THEN {"title"} ELSE c.put
           /\ apc' = IF c.ok THEN "read" ELSE "idle"
           /\ session_state' =
                 IF "password_input" \in c.put /\ session_state.password = "absent"
                 THEN [session_state EXCEPT !.password = ""]
                 ELSE session_state
    /\ UNCHANGED <<submitted, raised, data_dir>>
    /\ NotApp

\* lines 78-92
ReadFiles ==
    /\ apc = "read"
    /\ \E dir \in DataDirs :
         /\ data_dir' = dir
         /\ IF dir = "missing"
            THEN /\ page' = OnException(page)
                 /\ raised' = "read"
                 /\ apc' = "idle"
            ELSE IF dir = "empty"
            THEN /\ page' = page \cup {"no_files_error"}
                 /\ raised' = "no_files"
                 /\ apc' = "idle"
            ELSE /\ page' = page
                 /\ raised' = "none"
                 /\ apc' = "compute"
    /\ UNCHANGED <<session_state, submitted>>
    /\ NotApp

\* lines 94-134
Compute ==
    /\ apc = "compute"
    /\ raised' = ComputeRaises(data_dir)
    /\ page' = IF raised' = "none" THEN page ELSE OnException(page)
    /\ apc' = IF raised' = "none" THEN "table" ELSE "idle"
    /\ UNCHANGED <<session_state, submitted, data_dir>>
    /\ NotApp

\* lines 137-145
RenderTable ==
    /\ apc = "table"
    /\ page' = page \cup {"recommendations_subheader", "recommendations_table"}
    /\ apc' = "chart"
    /\ UNCHANGED <<session_state, submitted, raised, data_dir>>
    /\ NotApp

\* lines 141-145 raise after the subheader of line 140 is out
RenderTableRaises ==
    /\ apc = "table"
    /\ page' = OnException(page \cup {"recommendations_subheader"})
    /\ raised' = "table"
    /\ apc' = "idle"
    /\ UNCHANGED <<session_state, submitted, data_dir>>
    /\ NotApp

\* lines 147-187
RenderChart ==
    /\ apc = "chart"
    /\ page' = page \cup {"acwr_subheader", "acwr_chart"}
    /\ apc' = "analysis"
    /\ UNCHANGED <<session_state, submitted, raised, data_dir>>
    /\ NotApp

\* lines 149-187 raise after the subheader of line 148 is out
RenderChartRaises ==
    /\ apc = "chart"
    /\ page' = OnException(page \cup {"acwr_subheader"})
    /\ raised' = "chart"
    /\ apc' = "idle"
    /\ UNCHANGED <<session_state, submitted, data_dir>>
    /\ NotApp

\* lines 189-209
RenderAnalysis ==
    /\ apc = "analysis"
    /\ page' = page \cup {"analysis_subheader", "athlete_selectbox", "acwr_line_chart",
                          "latest_metrics"}
    /\ apc' = "idle"
    /\ UNCHANGED <<session_state, submitted, raised, data_dir>>
    /\ NotApp

\* lines 200-209 raise after the selectbox and the line chart are out
RenderAnalysisRaises ==
    /\ apc = "analysis"
    /\ page' = OnException(page \cup {"analysis_subheader", "athlete_selectbox",
                                      "acwr_line_chart"})
    /\ raised' = "analysis"
    /\ apc' = "idle"
    /\ UNCHANGED <<session_state, submitted, data_dir>>
    /\ NotApp

(***************************************************************************)
(* Specifications                                                          *)
(***************************************************************************)

\* calculate_training_recommendation on drawn histories and rows
InitRec == RecIdle /\ NormIdle({"timedelta"}) /\ ColorIdle /\ WellIdle /\ AppIdle
NextRec ==
    \/ AppendHistory
    \/ CallRecommendation
SpecRec == InitRec /\ [][NextRec]_vars

\* the load pipeline on drawn sheets
InitNorm == RecIdle /\ NormIdle({"text", "timedelta"}) /\ ColorIdle /\ WellIdle /\ AppIdle
NextNorm ==
    \/ LoadEntry
    \/ NormalizeStep
    \/ ScoreStep
    \/ NormalizeAgain
SpecNorm == InitNorm /\ [][NextNorm]_vars

\* calculate_color_code on drawn arguments
InitColor == RecIdle /\ NormIdle({"timedelta"}) /\ ColorIdle /\ WellIdle /\ AppIdle
NextColor == CallColorCode
SpecColor == InitColor /\ [][NextColor]_vars

\* the wellness pipeline on drawn sheets
InitWell == RecIdle /\ NormIdle({"timedelta"}) /\ ColorIdle /\ WellIdle /\ AppIdle
NextWell ==
    \/ AddResponse
    \/ ShowWellness
    \/ EditDisplayAnswer
SpecWell == InitWell /\ [][NextWell]_vars

\* one session of the dashboard
InitApp == RecIdle /\ NormIdle({"timedelta"}) /\ ColorIdle /\ WellIdle /\ AppStart
NextApp ==
    \/ SubmitPassword
    \/ Rerun
    \/ Gate
    \/ ReadFiles
    \/ Compute
    \/ RenderTable
    \/ RenderTableRaises
    \/ RenderChart
    \/ RenderChartRaises
    \/ RenderAnalysis
    \/ RenderAnalysisRaises
SpecApp == InitApp /\ [][NextApp]_vars

(***************************************************************************)
(* Claims                                                                  *)
(***************************************************************************)

\* C1: the base label is decided by the most-recent ACWR alone: below 1.0
\* more, above 1.3 less, and 1.0 through 1.3 (both ends included) or an
\* absent ACWR same.  (The source spells the labels in lower case.)
C1_BaseLabelByAcwr ==
    rpc = "done" =>
        LET a == recent_data.acwr
        IN  /\ IsNa(a) => rec.base_rec = "same"
            /\ FLt(a, FromInt(1)) => rec.base_rec = "more"
            /\ FGt(a, F(13, 10)) => rec.base_rec = "less"
            /\ (FGe(a, FromInt(1)) /\ FLe(a, F(13, 10))) => rec.base_rec = "same"

C1_Witness ==
    /\ rpc = "done"
    /\ recent_data.acwr = F(13, 10)
    /\ rec.base_rec = "same"

\* 0.4*acute_ratio + 0.3*hr_ratio + 0.3*movement_ratio on the returned
\* ratios, in the arithmetic of the program
C2_Score(r) ==
    FAdd(FAdd(FMul(F(4, 10), r.acute_ratio), FMul(F(3, 10), r.hr_ratio)),
         FMul(F(3, 10), r.movement_ratio))

\* The history sums and the most-recent values as integers (the inputs of
\* SpecRec are whole numbers), and the score of the claim in exact
\* arithmetic as the fraction C2_ExactNum / C2_ExactDen.
RECURSIVE C2_Sum(_, _)
C2_Sum(rows, col) ==
    IF rows = <<>> THEN 0
    ELSE C2_Sum(SubSeq(rows, 1, Len(rows) - 1), col) + FTruncInt(rows[Len(rows)][col])
C2_Sa == C2_Sum(athlete_data, "acute")
C2_Sh == C2_Sum(athlete_data, "hr")
C2_Sm == C2_Sum(athlete_data, "movement")
C2_ExactNum ==
    Len(athlete_data) * (4 * FTruncInt(recent_data.acute) * C2_Sh * C2_Sm
                         + 3 * FTruncInt(recent_data.hr) * C2_Sa * C2_Sm
                         + 3 * FTruncInt(recent_data.movement) * C2_Sa * C2_Sh)
C2_ExactDen == 10 * C2_Sa * C2_Sh * C2_Sm

\* C2 as stated: the override law with adjustment_score the number
\* 0.4*acute_ratio + 0.3*hr_ratio + 0.3*movement_ratio, the ratios being
\* most-recent value over historical mean (all means positive): base same and
\* score < 0.8 gives more, base same and score > 1.2 gives less, and in
\* every other case, a score in [0.8, 1.2] included, the final label is the
\* base label.
C2_AsStated ==
    (rpc = "done" /\ C2_Sa > 0 /\ C2_Sh > 0 /\ C2_Sm > 0) =>
        LET below == 10 * C2_ExactNum < 8 * C2_ExactDen
            above == 10 * C2_ExactNum > 12 * C2_ExactDen
        IN  /\ (rec.base_rec = "same" /\ below) => rec.final_rec = "more"
            /\ (rec.base_rec = "same" /\ above) => rec.final_rec = "less"
            /\ (rec.base_rec # "same" \/ (~below /\ ~above)) => rec.final_rec = rec.base_rec

\* C2 amended: override law on the score the function computes and returns,
\* the double (0.4*acute_ratio + 0.3*hr_ratio) + 0.3*movement_ratio: base
\* same and score < 0.8 gives more, base same and score > 1.2 gives less,
\* and in every other case the final label is the base label.  Rounding
\* puts the double beside the exact sum, so inputs whose exact score is 0.8
\* or 1.2 may be overridden.
C2_OverrideLaw ==
    rpc = "done" =>
        LET score == rec.adjustment_score
        IN  /\ score = C2_Score(rec)
            /\ (rec.base_rec = "same" /\ FLt(score, F(8, 10))) => rec.final_rec = "more"
            /\ (rec.base_rec = "same" /\ FGt(score, F(12, 10))) => rec.final_rec = "less"
            /\ (rec.base_rec # "same" \/ (~FLt(score, F(8, 10)) /\ ~FGt(score, F(12, 10))))
                  => rec.final_rec = rec.base_rec

\* base same with an exact score of 0.8 that the doubles put below 0.8
\* (history mean 10/10/10, recent 2/5/19), so the label is more
C2_Witness ==
    /\ rpc = "done"
    /\ C2_Sa > 0 /\ C2_Sh > 0 /\ C2_Sm > 0
    /\ 10 * C2_ExactNum = 8 * C2_ExactDen
    /\ rec.base_rec = "same"
    /\ FLt(rec.adjustment_score, F(8, 10))
    /\ rec.final_rec = "more"

\* The athletes whose whole cleaned history is one row (which is then also
\* the most-recent row), and that row.
C3_SingleRecord(a) == Cardinality(AthleteRows(combined_df, a)) = 1
C3_Row(a) == CHOOSE r \in AthleteRows(combined_df, a) : TRUE
C3_One == FromInt(1)
C3_SameByAcwr(r) == IsNa(r.acwr) \/ (FGe(r.acwr, FromInt(1)) /\ FLe(r.acwr, F(13, 10)))

\* C3 as stated: every single record that passes the filter gives the three
\* ratios and the adjustment score 1.0, and the label same when ACWR is
\* absent or in [1.0, 1.3].
C3_AsStated ==
    npc = "scored" =>
        \A a \in DOMAIN results :
            C3_SingleRecord(a) =>
                /\ results[a].acute_ratio = C3_One
                /\ results[a].hr_ratio = C3_One
                /\ results[a].movement_ratio = C3_One
                /\ results[a].adjustment_score = C3_One
                /\ C3_SameByAcwr(C3_Row(a)) => results[a].final_rec = "same"

\* C3 amended: for a single-record history the movement ratio is 1.0; the
\* acute ratio is 1.0 when the acute load is a non-zero number and
\* not-a-number when it is zero or missing; the HR ratio is 1.0 when the HR
\* minutes are a non-zero number and not-a-number when they are zero or
\* missing; the adjustment score is 1.0 when both ratios are 1.0 and
\* not-a-number otherwise; and the label is same whenever ACWR is absent or
\* in [1.0, 1.3].
C3_SingleRecordRatios ==
    npc = "scored" =>
        \A a \in DOMAIN results :
            C3_SingleRecord(a) =>
                LET r == C3_Row(a)
                    o == results[a]
                    present(x) == IsNum(x) /\ ~IsZero(x)
                IN  /\ o.movement_ratio = C3_One
                    /\ o.acute_ratio = IF present(r.acute) THEN C3_One ELSE FNaN
                    /\ o.hr_ratio = IF present(r.hr) THEN C3_One ELSE FNaN
                    /\ o.adjustment_score =
                          IF present(r.acute) /\ present(r.hr) THEN C3_One ELSE FNaN
                    /\ C3_SameByAcwr(r) => o.final_rec = "same"

C3_Witness ==
    /\ npc = "scored"
    /\ \E a \in DOMAIN results :
         /\ C3_SingleRecord(a)
         /\ IsNum(C3_Row(a).acute) /\ ~IsZero(C3_Row(a).acute) /\ ~IsZero(C3_Row(a).hr)
         /\ C3_Row(a).acwr = F(13, 10)
         /\ results[a].adjustment_score = C3_One
         /\ results[a].final_rec = "same"

\* Totals of one athlete-day over the raw entries, for the claims.
RECURSIVE C4_Total(_, _, _)
C4_Total(df, key, col) ==
    IF df = <<>> THEN FZero
    ELSE LET rest == C4_Total(SubSeq(df, 1, Len(df) - 1), key, col)
             e    == df[Len(df)]
         IN  IF <<e.athlete, e.date>> = key THEN FAdd(rest, e[col]) ELSE rest
C4_OutKeys == { <<r.athlete, r.date>> : r \in combined_df.rows }
C4_EntryBelow(e) == FLt(e.trimp, FromInt(50)) \/ FLt(e.movement, FromInt(50))
C4_SameDay(i, j) ==
    i # j /\ raw_df[i].athlete = raw_df[j].athlete /\ raw_df[i].date = raw_df[j].date
\* some athlete-day has two entries whose durations are text
C4_Unreadable == dur_dtype = "text" /\ \E i, j \in DOMAIN raw_df : C4_SameDay(i, j)

\* C4 as stated: entries below either threshold are discarded before the
\* same-day aggregation, so none contributes to a row of the output, and an
\* entry with both values >= 50 is kept.
C4_AsStated ==
    npc = "cleaned" =>
        \A i \in DOMAIN raw_df :
            LET e == raw_df[i]
            IN  /\ C4_EntryBelow(e) => <<e.athlete, e.date>> \notin C4_OutKeys
                /\ ~C4_EntryBelow(e) => <<e.athlete, e.date>> \in C4_OutKeys

\* C4 amended: the filter acts on the aggregated athlete-day rows.  The
\* normalizer raises, and gives no output at all, exactly when an athlete-day
\* has two entries with text durations (their sum is no duration).  In every
\* other case a row is in the output exactly when the day's summed trimp and
\* summed movement load are both >= 50 (exactly 50 is kept), and it carries
\* those sums; so an entry with both values >= 50 is then kept, and an entry
\* below a threshold is dropped only when its day's sum stays below it.
C4_FilterOnDailySums ==
    /\ npc \in {"cleaned", "failed"} => (npc = "failed" <=> C4_Unreadable)
    /\ npc = "failed" => combined_df.rows = {}
    /\ npc = "cleaned" =>
        /\ \A key \in GroupKeys(raw_df) :
             key \in C4_OutKeys <=>
                 /\ FGe(C4_Total(raw_df, key, "trimp"), FromInt(50))
                 /\ FGe(C4_Total(raw_df, key, "movement"), FromInt(50))
        /\ \A r \in combined_df.rows :
             /\ r.trimp = C4_Total(raw_df, <<r.athlete, r.date>>, "trimp")
             /\ r.movement = C4_Total(raw_df, <<r.athlete, r.date>>, "movement")
        /\ \A i \in DOMAIN raw_df :
             ~C4_EntryBelow(raw_df[i]) => <<raw_df[i].athlete, raw_df[i].date>> \in C4_OutKeys

\* two same-day entries, each below the trimp threshold, kept as one row
\* whose summed trimp is exactly 50
C4_Witness ==
    /\ npc = "cleaned"
    /\ \E i, j \in DOMAIN raw_df :
         /\ C4_SameDay(i, j)
         /\ C4_EntryBelow(raw_df[i]) /\ C4_EntryBelow(raw_df[j])
         /\ \E r \in combined_df.rows :
              /\ <<r.athlete, r.date>> = <<raw_df[i].athlete, raw_df[i].date>>
              /\ r.trimp = FromInt(50)

\* C5 as stated: the normalizer applied to its own output changes nothing.
C5_AsStated ==
    npc = "again" => renormalized = combined_df

C5_Plain(r) == [athlete |-> r.athlete, date |-> r.date, trimp |-> r.trimp,
                movement |-> r.movement, acute |-> r.acute, acwr |-> r.acwr]

\* C5 amended: the normalizer applied to its own output keeps the same
\* athlete-day rows with the same trimp, movement load, acute load and ACWR,
\* but re-reads the minutes of the two duration fields as nanoseconds: each
\* duration field, and hr_min_80, is unchanged exactly when it is zero.
C5_IdempotentButDurations ==
    npc = "again" =>
        /\ renormalized.error = "none"
        /\ { C5_Plain(r) : r \in renormalized.rows } = { C5_Plain(r) : r \in combined_df.rows }
        /\ \A r \in combined_df.rows : \A q \in renormalized.rows :
             (q.athlete = r.athlete /\ q.date = r.date) =>
                 /\ q.anaer = r.anaer <=> IsZero(r.anaer)
                 /\ q.high = r.high <=> IsZero(r.high)
                 /\ q.hr = r.hr <=> IsZero(r.hr)

C5_Witness ==
    /\ npc = "again"
    /\ \E r \in combined_df.rows : ~IsZero(r.anaer)
    /\ \E r \in combined_df.rows : IsZero(r.hr)
    /\ Cardinality(combined_df.rows) = 2

\* z = (value - mean) / std_dev on the arguments of the call, for the claims
C6_Judged ==
    /\ cpc = "done"
    /\ ~IsNa(cc_args.value)
    /\ IsNum(cc_args.mean)
    /\ IsNum(cc_args.std) /\ FGt(cc_args.std, FZero)
C6_Z == FDiv(FSub(cc_args.value, cc_args.mean), cc_args.std)

\* C6 as stated: with a value, a mean and a std_dev > 0 present, the class is
\* decided by z = (value - mean) / std_dev with strict thresholds, and a
\* value exactly one std_dev above or below the mean (value = mean + std_dev,
\* value = mean - std_dev) is within (gray).
C6_AsStated ==
    C6_Judged =>
        /\ FLt(C6_Z, FromInt(-1)) <=> cc_style = Red
        /\ FGt(C6_Z, FromInt(1)) <=> cc_style = Green
        /\ (\/ cc_args.value = FAdd(cc_args.mean, cc_args.std)
            \/ cc_args.value = FSub(cc_args.mean, cc_args.std)) => cc_style = Gray

\* C6 amended: with a value, a mean and a std_dev > 0 present, the class is
\* decided by the double z = (value - mean) / std_dev the function computes,
\* with strict thresholds: z < -1 is below (red), z > 1 is above (green),
\* every z in [-1, 1] is within (gray); a value whose difference from the
\* mean, as the double value - mean, is exactly std_dev or -std_dev has z
\* exactly 1 or -1 and is within.
C6_StrictThresholds ==
    C6_Judged =>
        /\ FLt(C6_Z, FromInt(-1)) <=> cc_style = Red
        /\ FGt(C6_Z, FromInt(1)) <=> cc_style = Green
        /\ (FGe(C6_Z, FromInt(-1)) /\ FLe(C6_Z, FromInt(1))) <=> cc_style = Gray
        /\ (\/ FSub(cc_args.value, cc_args.mean) = cc_args.std
            \/ FSub(cc_args.mean, cc_args.value) = cc_args.std)
              => /\ C6_Z \in {FromInt(1), FromInt(-1)}
                 /\ cc_style = Gray

\* value 5 against mean 3 and std 2: z is exactly 1
C6_Witness ==
    /\ C6_Judged
    /\ cc_args.value = FromInt(5) /\ cc_args.mean = FromInt(3) /\ cc_args.std = FromInt(2)
    /\ cc_style = Gray

\* The baseline-window answers of an athlete to a metric that are not empty,
\* read off the sheet for the claims.
C7_Latest == MaxDate(wellness_df)
C7_Points(athlete, metric) ==
    { i \in DOMAIN wellness_df :
        /\ wellness_df[i].Name = athlete
        /\ wellness_df[i].Date >= C7_Latest - 20
        /\ wellness_df[i].Date < C7_Latest - 6
        /\ ~IsNa(wellness_df[i].vals[metric]) }
C7_NoSpread(athlete, metric) ==
    \A i, j \in C7_Points(athlete, metric) :
        wellness_df[i].vals[metric] = wellness_df[j].vals[metric]

\* C7: an athlete's cell is white (no data) whenever no judgment is possible:
\* the displayed value is absent, or the athlete has no or one baseline data
\* point for the metric, or the baseline has no spread (std_dev 0).
C7_NeutralWhenNoJudgment ==
    wpc \in {"shown", "edited"} =>
        \A cell \in DOMAIN display :
            (/\ cell[1] # TeamAverage
             /\ \/ IsNa(display[cell].value)
                \/ Cardinality(C7_Points(cell[1], cell[2])) <= 1
                \/ C7_NoSpread(cell[1], cell[2]))
            => display[cell].style = White

\* C8: changing answers of rows dated inside the display window never changes
\* any athlete's baseline mean or std_dev.
C8_BaselineIsolation ==
    [][wpc' = "edited" => stats' = stats]_vars

\* an edited sheet whose athlete has a judged baseline and a display row
C8_Witness ==
    /\ wpc = "edited"
    /\ \E a \in DOMAIN stats :
         /\ IsNum(stats[a]["Mood"].mean)
         /\ IsNum(stats[a]["Mood"].std)
         /\ \E i \in DOMAIN wellness_df :
              /\ wellness_df[i].Name = a
              /\ wellness_df[i].Date >= display_start(wellness_df)
              /\ wellness_df[i].vals["Mood"] = FromInt(5)

ComputedView == {"recommendations_table", "acwr_chart", "athlete_selectbox",
                 "acwr_line_chart", "latest_metrics"}
C9_Failed == apc = "idle" /\ raised # "none"

\* C9 as stated: in a run in which any step fails, no part of the computed
\* view is on the page.
C9_AsStated ==
    C9_Failed => page \cap ComputedView = {}

\* C9 amended: a run that fails before its first rendering call (listing or
\* reading the files, aggregation, cleaning, scoring and sorting) shows no
\* part of the computed view, only the error message; a run that fails
\* while rendering shows the error message below the elements rendered before
\* the failing call, which stay on the page.
C9_FailureKeepsRenderedPrefix ==
    C9_Failed =>
        /\ raised = "no_files" => page = {"title", "no_files_error"}
        /\ raised \in {"read", "aggregate", "clean", "score"}
              => page = {"title", "error", "help"}
        /\ raised = "table"
              => page = {"title", "recommendations_subheader", "error", "help"}
        /\ raised = "chart"
              => page = {"title", "recommendations_subheader", "recommendations_table",
                         "acwr_subheader", "error", "help"}
        /\ raised = "analysis"
              => page = {"title", "recommendations_subheader", "recommendations_table",
                         "acwr_subheader", "acwr_chart", "analysis_subheader",
                         "athlete_selectbox", "acwr_line_chart", "error", "help"}

C9_Witness ==
    /\ C9_Failed
    /\ raised = "clean"
    /\ data_dir = "two_text_entries"
    /\ page = {"title", "error", "help"}

PromptOnly == {"password_input", "password_error"}

\* C10: content past the gate is rendered only while password_correct is
\* true; the flag is true exactly when the most recent submission was the
\* secret; and a finished run without the flag shows only the password
\* prompt (with the error line after a wrong submission).
C10_AccessGate ==
    /\ (page \ PromptOnly # {}) => session_state.password_correct = "True"
    /\ session_state.password_correct = "True"
          <=> (submitted # <<>> /\ submitted[Len(submitted)] = Secret)
    /\ (apc = "idle" /\ session_state.password_correct # "True")
          => /\ "password_input" \in page
             /\ page \subseteq PromptOnly
             /\ "password_error" \in page <=> submitted # <<>>

C10_Witness ==
    /\ apc = "idle"
    /\ Len(submitted) = 2
    /\ submitted[1] # Secret
    /\ submitted[2] = Secret
    /\ "latest_metrics" \in page

====
